---- MODULE Spec2Model ----
(***************************************************************************)
(* Model of packages/test-runner/src/config/parseConfig.ts: the resolution *)
(* of a test runner configuration from the module-level defaults, a user   *)
(* configuration object and the command-line arguments.                    *)
(*                                                                         *)
(* A JavaScript value is a record [t, v]: t is its kind ("undefined",      *)
(* "null", "string", "number", "boolean", "array", "object") and v what    *)
(* distinguishes it.  Arrays that the code mutates in place (the plugin    *)
(* lists) live in a heap and are held by reference, so that two configs    *)
(* holding the same array see each other's changes, as they do in the      *)
(* program.  parseConfig is an async function: the code that runs between  *)
(* two awaits is one action.                                               *)
(***************************************************************************)
EXTENDS Integers, Sequences, FiniteSets, TLC

\* ------------------------------------------------------------------ bounds
MaxCalls == 2          \* resolutions run one after the other
MaxGroups == 2         \* entries of the user's groups array
MaxUserPlugins == 2    \* plugins in the user's plugins array

\* ------------------------------------------------------------- JS values
JS(t, v) == [t |-> t, v |-> v]
undefined == JS("undefined", "")
null == JS("null", "")

typeOf(x) == IF x.t \in {"null", "array", "object"} THEN "object" ELSE x.t
isArray(x) == x.t = "array"
isNullish(x) == x.t \in {"undefined", "null"}
truthy(x) ==
  CASE x.t \in {"undefined", "null"} -> FALSE
    [] x.t = "string" -> x.v # ""
    [] x.t = "number" -> x.v \notin {"0", "NaN"}
    [] x.t = "boolean" -> x.v = "true"
    [] OTHER -> TRUE

\* --------------------------------------------------------- configuration
stringSettings == <<"rootDir", "hostname">>
numberSettings ==
  <<"port", "concurrentBrowsers", "concurrency", "browserStartTimeout",
    "testsStartTimeout", "testsFinishTimeout">>
booleanSettings ==
  <<"watch", "preserveSymlinks", "browserLogs", "coverage", "staticLogging",
    "manual", "open", "debug">>

Range(f) == {f[i] : i \in DOMAIN f}

ListKeys == {"browsers", "groups"}
TypedKeys == Range(stringSettings) \cup Range(numberSettings) \cup Range(booleanSettings)
AllKeys ==
  TypedKeys \cup ListKeys \cup
  {"protocol", "middleware", "plugins", "esbuildTarget", "files", "nodeResolve",
   "testFramework", "reporters", "logger", "group", "puppeteer", "playwright"}

\* references into the heap of plugin arrays
NoRef == 0
DefaultRef == 1
UserRef == 2
FreshRef(call) == UserRef + call
Refs == DefaultRef..FreshRef(MaxCalls)

undefinedOf(k) ==
  IF k \in ListKeys THEN JS("undefined", <<>>)
  ELSE IF k = "plugins" THEN JS("undefined", NoRef)
  ELSE undefined
nullOf(k) ==
  IF k \in ListKeys THEN JS("null", <<>>)
  ELSE IF k = "plugins" THEN JS("null", NoRef)
  ELSE null

emptyConfig == [k \in AllKeys |-> undefinedOf(k)]

defaultConfig ==
  [emptyConfig EXCEPT
     !["rootDir"] = JS("string", "/cwd"),
     !["protocol"] = JS("string", "http:"),
     !["hostname"] = JS("string", "localhost"),
     !["middleware"] = JS("array", "[]"),
     !["plugins"] = JS("array", DefaultRef),
     !["watch"] = JS("boolean", "false"),
     !["concurrentBrowsers"] = JS("number", "2"),
     !["concurrency"] = JS("number", "cpus/2"),
     !["browserStartTimeout"] = JS("number", "30000"),
     !["testsStartTimeout"] = JS("number", "20000"),
     !["testsFinishTimeout"] = JS("number", "120000"),
     !["browserLogs"] = JS("boolean", "true")]

\* ---------------------------------------------------------------- errors
Err(cls, kind, key) == [cls |-> cls, kind |-> kind, key |-> key]
NoErr == Err("", "none", "")

\* ------------------------------------------------------------- validation
\* validate with "=== undefined" for "== null": null is checked as a value
validateNullAsValue(cfg, key, type) ==
  IF cfg[key].t = "undefined" THEN NoErr
  ELSE IF typeOf(cfg[key]) # type
    THEN Err("TestRunnerStartError", "ConfigValidationError", key)
    ELSE NoErr

validate(cfg, key, type) ==
  IF isNullish(cfg[key]) THEN NoErr
  ELSE IF typeOf(cfg[key]) # type
    THEN Err("TestRunnerStartError", "ConfigValidationError", key)
    ELSE NoErr

typedChecks ==
  [i \in 1..Len(stringSettings) |-> <<stringSettings[i], "string">>]
  \o [i \in 1..Len(numberSettings) |-> <<numberSettings[i], "number">>]
  \o [i \in 1..Len(booleanSettings) |-> <<booleanSettings[i], "boolean">>]

validateConfig(cfg) ==
  LET bad == {i \in DOMAIN typedChecks :
                validate(cfg, typedChecks[i][1], typedChecks[i][2]) # NoErr}
      first == CHOOSE i \in bad : \A j \in bad : i <= j
  IN IF bad # {} THEN validate(cfg, typedChecks[first][1], typedChecks[first][2])
     ELSE IF ~isNullish(cfg["esbuildTarget"])
             /\ ~(typeOf(cfg["esbuildTarget"]) = "string" \/ isArray(cfg["esbuildTarget"]))
       THEN Err("Error", "ConfigValidationError", "esbuildTarget")
     ELSE IF ~isNullish(cfg["files"])
             /\ ~(typeOf(cfg["files"]) = "string" \/ isArray(cfg["files"]))
       THEN Err("Error", "ConfigValidationError", "files")
     ELSE NoErr

\* ------------------------------------------------------------------ merge
mergeConfigs(a, b, c) ==
  [k \in AllKeys |->
     IF c[k].t # "undefined" THEN c[k]
     ELSE IF b[k].t # "undefined" THEN b[k]
     ELSE a[k]]

\* cliArgsConfig without "browsers: undefined"
cliArgsConfigKeepBrowsers(cli) ==
  [cli EXCEPT !["groups"] = undefinedOf("groups")]

cliArgsConfig(cli) ==
  [cli EXCEPT !["groups"] = undefinedOf("groups"),
              !["browsers"] = undefinedOf("browsers")]

\* path.resolve: an absolute path is kept, a relative one is put under cwd
resolve(p) ==
  CASE p = "/cwd" -> "/cwd"
    [] p = "/abs" -> "/abs"
    [] p = "rel" -> "/cwd/rel"
    [] p = "" -> "/cwd"
    [] OTHER -> p

\* ------------------------------------------------------ group entries
\* An entry of a groups array: an inline group object (kind "object", with a
\* name and its files) or a glob pattern (kind "string", name is the pattern).
\* ref is the index of an inline object in the user's groups array, so that a
\* change of the object is seen through the user's config too; 0 for an object
\* made by the collector.
Group(kind, name, files, ref) == [kind |-> kind, name |-> name, files |-> files, ref |-> ref]

groupsTruthy(g) ==
  CASE isNullish(g) -> FALSE
    [] g.t = "string" -> g.v[1].name # ""
    [] OTHER -> TRUE

\* Array.prototype.find: the first element by scan order
findIndex(seq, name) ==
  LET hits == {i \in DOMAIN seq : seq[i].name = name}
  IN IF hits = {} THEN 0 ELSE CHOOSE i \in hits : \A j \in hits : i <= j

\* ------------------------------------------------------ browser launchers
Launcher(family, name) == [family |-> family, name |-> name]
chromeLauncher == Launcher("chrome", "chrome")
puppeteerLauncher(browsers) ==
  IF isNullish(browsers) THEN <<Launcher("puppeteer", "chrome")>>
  ELSE [i \in DOMAIN browsers.v |-> Launcher("puppeteer", browsers.v[i])]
playwrightLauncher(browsers) ==
  IF isNullish(browsers) THEN <<Launcher("playwright", "chromium")>>
  ELSE [i \in DOMAIN browsers.v |-> Launcher("playwright", browsers.v[i])]

\* ------------------------------------------------- the steps of parseConfig
\* The locals and the objects parseConfig works on are one record s; a step
\* acts only while the function is running (s.pc = "run"), a thrown error
\* ends it (pc = "failed") and an await suspends it.
Fail(s, e) == [s EXCEPT !.pc = "failed", !.err = e]
At(s, stage) == [s EXCEPT !.stage = stage]

StepMerge(s) ==
  [s EXCEPT !.stage = "merge",
            !.fc = mergeConfigs(defaultConfig, s.config, cliArgsConfig(s.cli)),
            !.gcs = <<>>, !.resolved = <<>>, !.patterns = <<>>,
            !.log = <<>>, !.err = NoErr]

StepValidate(s) ==
  IF s.pc # "run" THEN s
  ELSE LET e == validateConfig(s.fc)
       IN IF e # NoErr THEN Fail(At(s, "validate"), e) ELSE At(s, "validate")

StepRootDir(s) ==
  IF s.pc # "run" THEN s
  ELSE IF typeOf(s.fc["rootDir"]) = "string"
    THEN [s EXCEPT !.stage = "rootDir",
                   !.fc["rootDir"] = JS("string", resolve(s.fc["rootDir"].v))]
    ELSE Fail(At(s, "rootDir"), Err("TestRunnerStartError", "MissingRootDirError", "rootDir"))

\* StepPort with "port === undefined" for "typeof port !== 'number'"
StepPortUndefinedOnly(s) ==
  IF s.pc # "run" THEN s
  ELSE IF s.fc["port"].t = "undefined"
    THEN [s EXCEPT !.stage = "port", !.pc = "awaitPort",
                   !.log = Append(s.log, "port:start")]
    ELSE At(s, "port")

StepPort(s) ==
  IF s.pc # "run" THEN s
  ELSE IF typeOf(s.fc["port"]) # "number"
    THEN [s EXCEPT !.stage = "port", !.pc = "awaitPort",
                   !.log = Append(s.log, "port:start")]
    ELSE At(s, "port")

StepGroups(s) ==
  IF s.pc # "run" THEN s
  ELSE IF groupsTruthy(s.fc["groups"])
    THEN LET entries == s.fc["groups"].v
             isObject(e) == e.kind = "object"
             isString(e) == e.kind = "string"
         IN [s EXCEPT !.stage = "groups", !.pc = "awaitCollect",
                      !.gcs = SelectSeq(entries, isObject),
                      !.patterns = SelectSeq(entries, isString),
                      !.log = Append(s.log, "collect:start")]
    ELSE At(s, "groups")

\* StepReserved with the check made only when no group is focused
StepReservedUnfocused(s) ==
  IF s.pc # "run" THEN s
  ELSE IF isNullish(s.cli["group"]) /\ findIndex(s.gcs, "default") # 0
    THEN Fail(At(s, "reserved"), Err("Error", "ReservedGroupNameError", "default"))
    ELSE At(s, "reserved")

StepReserved(s) ==
  IF s.pc # "run" THEN s
  ELSE IF findIndex(s.gcs, "default") # 0
    THEN Fail(At(s, "reserved"), Err("Error", "ReservedGroupNameError", "default"))
    ELSE At(s, "reserved")

\* focusDefault with the root files cleared as for a named focus
focusDefaultClearFiles(s) ==
  [s EXCEPT !.stage = "focus", !.gcs = <<>>, !.fc["files"] = undefined]

\* the default group is an alias for the root config
focusDefault(s) == [s EXCEPT !.stage = "focus", !.gcs = <<>>]

\* inheritFiles without the "files == null" test
inheritFilesAlways(g, rootFiles) == [g EXCEPT !.files = rootFiles]

\* a focused group without files of its own takes the root config's
inheritFiles(g, rootFiles) ==
  IF isNullish(g.files) THEN [g EXCEPT !.files = rootFiles] ELSE g

StepFocus(s) ==
  IF s.pc # "run" THEN s
  ELSE IF ~isNullish(s.cli["group"])
    THEN IF s.cli["group"] = JS("string", "default")
      THEN focusDefault(s)
      ELSE LET i == findIndex(s.gcs, s.cli["group"].v)
           IN IF i = 0
                THEN Fail(At(s, "focus"),
                          Err("TestRunnerStartError", "GroupNotFoundError", s.cli["group"].v))
                ELSE LET g == s.gcs[i]
                         g2 == inheritFiles(g, s.fc["files"])
                     IN [s EXCEPT
                           !.stage = "focus",
                           !.config["groups"].v =
                              IF g.ref # 0 THEN [@ EXCEPT ![g.ref] = g2] ELSE @,
                           !.fc["files"] = undefined,
                           !.gcs = <<g2>>]
    ELSE At(s, "focus")

\* defaultBrowsers with an empty browsers array taken as not configured
defaultBrowsersOnEmpty(browsers) ==
  IF isNullish(browsers) \/ Len(browsers.v) = 0
    THEN JS("array", <<chromeLauncher>>) ELSE browsers

\* the default chrome launcher if the user did not configure their own browsers
defaultBrowsers(browsers) ==
  IF isNullish(browsers) THEN JS("array", <<chromeLauncher>>) ELSE browsers

StepLaunch(s) ==
  IF s.pc # "run" THEN s
  ELSE IF truthy(s.cli["puppeteer"])
    THEN IF ~isNullish(s.fc["browsers"]) /\ Len(s.fc["browsers"].v) > 0
      THEN Fail(At(s, "launch"),
                Err("TestRunnerStartError", "ConflictingLauncherError", "puppeteer"))
      ELSE [s EXCEPT !.stage = "launch",
                     !.fc["browsers"] = JS("array", puppeteerLauncher(s.cli["browsers"]))]
  ELSE IF truthy(s.cli["playwright"])
    THEN IF ~isNullish(s.fc["browsers"]) /\ Len(s.fc["browsers"].v) > 0
      THEN Fail(At(s, "launch"),
                Err("TestRunnerStartError", "ConflictingLauncherError", "playwright"))
      ELSE [s EXCEPT !.stage = "launch",
                     !.fc["browsers"] = JS("array", playwrightLauncher(s.cli["browsers"]))]
  ELSE IF ~isNullish(s.cli["browsers"])
    THEN Fail(At(s, "launch"),
              Err("TestRunnerStartError", "InvalidLauncherSelectionError", "browsers"))
  ELSE [s EXCEPT !.stage = "launch", !.fc["browsers"] = defaultBrowsers(@)]

StepDefaults(s) ==
  IF s.pc # "run" THEN s
  ELSE [s EXCEPT
          !.stage = "defaults",
          !.fc["testFramework"] =
             IF isNullish(@) THEN JS("object", "autorun.js") ELSE @,
          !.fc["reporters"] =
             IF ~truthy(@) THEN JS("array", "[defaultReporter]") ELSE @,
          !.fc["logger"] =
             IF ~truthy(@) THEN JS("object", "TestRunnerLogger") ELSE @]

StepPlugins(s) ==
  IF s.pc # "run" THEN s
  ELSE LET fresh == isNullish(s.fc["plugins"])
           ref == IF fresh THEN FreshRef(s.call) ELSE s.fc["plugins"].v
           p0 == IF fresh THEN <<>> ELSE s.heap[ref]
           p1 == <<"syntax-checker">> \o p0
           p2 == <<"set-viewport", "emulate-media", "set-user-agent">> \o p1
           p3 == IF truthy(s.fc["nodeResolve"]) THEN Append(p2, "node-resolve") ELSE p2
           p4 == IF truthy(s.fc["esbuildTarget"]) THEN <<"esbuild">> \o p3 ELSE p3
       IN [s EXCEPT !.stage = "plugins",
                    !.fc["plugins"] = JS("array", ref),
                    !.heap[ref] = p4]

StepReturn(s) == IF s.pc # "run" THEN s ELSE [s EXCEPT !.pc = "done"]

Rest(s) == StepReturn(StepPlugins(StepDefaults(StepLaunch(StepFocus(StepReserved(s))))))

\* ------------------------------------------------------------ collaborators
\* getPortPromise({ port: 8000 }): the first free port from 8000 on
FreePorts == {JS("number", "8000"), JS("number", "8001")}

\* collectGroupConfigs(patterns): the group objects of the files the patterns
\* match; nothing without patterns
CollectedNames == {"a", "c", "default"}
CollectedGroups(patterns) ==
  IF patterns = <<>> THEN {<<>>}
  ELSE {<<>>} \cup {<<Group("object", n, undefined, 0)>> : n \in CollectedNames}
       \cup {<<Group("object", "c", JS("string", "c.test.js"), 0),
               Group("object", "a", undefined, 0)>>}

\* ------------------------------------------------------------------- state
VARIABLES
  config,        \* the caller's configuration object
  cliArgs,       \* the command-line arguments
  heap,          \* the plugin arrays, by reference
  pc,            \* where parseConfig is: idle, awaitPort, awaitCollect, done, failed
  stage,         \* the last step of parseConfig that was entered
  call,          \* the number of the current resolution
  finalConfig,   \* the local finalConfig
  groupConfigs,  \* the local groupConfigs
  resolved,      \* groupConfigs as the groups specification resolved to
  configPatterns,\* the local configPatterns
  log,           \* the collaborator calls of the current resolution, in order
  err,           \* the error thrown, or NoErr
  pre,           \* the caller's objects as they were when parseConfig was called
  results        \* what the finished resolutions returned

vars == <<config, cliArgs, heap, pc, stage, call, finalConfig, groupConfigs,
          resolved, configPatterns, log, err, pre, results>>

Locals ==
  [pc |-> pc, stage |-> stage, call |-> call, cli |-> cliArgs, config |-> config,
   heap |-> heap, fc |-> finalConfig, gcs |-> groupConfigs, resolved |-> resolved,
   patterns |-> configPatterns, log |-> log, err |-> err]

Returned(s) ==
  [call |-> s.call, config |-> s.fc, groupConfigs |-> s.gcs,
   ref |-> s.fc["plugins"].v, plugins |-> s.heap[s.fc["plugins"].v]]

Commit(s) ==
  /\ pc' = s.pc
  /\ stage' = s.stage
  /\ call' = s.call
  /\ config' = s.config
  /\ heap' = s.heap
  /\ finalConfig' = s.fc
  /\ groupConfigs' = s.gcs
  /\ resolved' = s.resolved
  /\ configPatterns' = s.patterns
  /\ log' = s.log
  /\ err' = s.err
  /\ results' = IF s.pc = "done" THEN Append(results, Returned(s)) ELSE results
  /\ UNCHANGED cliArgs

\* parseConfig(config, cliArgs) is called: the code up to the first await
Call ==
  /\ pc \in {"idle", "done", "failed"}
  /\ call < MaxCalls
  /\ pre' = [config |-> config, heap |-> heap]
  /\ Commit(Rest(StepGroups(StepPort(StepRootDir(StepValidate(StepMerge(
       [Locals EXCEPT !.pc = "run", !.call = call + 1])))))))

\* the port finder's promise resolves
PortResolved ==
  /\ pc = "awaitPort"
  /\ \E p \in FreePorts :
       Commit(Rest(StepGroups(
         [Locals EXCEPT !.pc = "run", !.fc["port"] = p,
                        !.log = Append(log, "port:done")])))
  /\ UNCHANGED pre

\* the port finder's promise rejects: no free port
PortRejected ==
  /\ pc = "awaitPort"
  /\ Commit(Fail([Locals EXCEPT !.log = Append(log, "port:failed")],
                 Err("Error", "PortFinderError", "port")))
  /\ UNCHANGED pre

\* the group collector's promise resolves
GroupsCollected ==
  /\ pc = "awaitCollect"
  /\ \E gs \in CollectedGroups(configPatterns) :
       Commit(Rest(
         [Locals EXCEPT !.pc = "run", !.gcs = groupConfigs \o gs,
                        !.resolved = groupConfigs \o gs,
                        !.log = Append(log, "collect:done")]))
  /\ UNCHANGED pre

\* the group collector's promise rejects: a group file cannot be read
CollectRejected ==
  /\ pc = "awaitCollect"
  /\ configPatterns # <<>>
  /\ Commit(Fail([Locals EXCEPT !.log = Append(log, "collect:failed")],
                 Err("Error", "GroupCollectError", "groups")))
  /\ UNCHANGED pre

\* ------------------------------------------------------------------ inputs
SeqsUpTo(S, n) == UNION {[1..m -> S] : m \in 0..n}
With(c, k, v) == [c EXCEPT ![k] = v]

RightValues(k) ==
  CASE k \in Range(stringSettings) -> {JS("string", "rel"), JS("string", "/abs")}
    [] k \in Range(numberSettings) -> {JS("number", "9000")}
    [] k \in Range(booleanSettings) -> {JS("boolean", "true"), JS("boolean", "false")}
    [] k = "esbuildTarget" -> {JS("string", "es2020"), JS("array", "[es2020]")}
    [] k = "files" -> {JS("string", "test/*.js"), JS("array", "[test/*.js]")}
WrongValues(k) ==
  CASE k \in Range(stringSettings) -> {JS("number", "5")}
    [] k \in Range(numberSettings) -> {JS("string", "9000")}
    [] k \in Range(booleanSettings) -> {JS("string", "true")}
    [] k = "esbuildTarget" -> {JS("number", "2020"), JS("object", "{}")}
    [] k = "files" -> {JS("boolean", "true"), JS("object", "{}")}
CheckedKeys == TypedKeys \cup {"esbuildTarget", "files"}
UserValues(k) == {undefined, null} \cup RightValues(k) \cup WrongValues(k)

\* the settings the command line can give, always of the right type
CliKeys == {"rootDir", "port", "watch", "files", "esbuildTarget"}
CliValue(k) ==
  CASE k = "rootDir" -> JS("string", "/abs")
    [] k = "port" -> JS("number", "8080")
    [] k = "watch" -> JS("boolean", "true")
    [] k = "files" -> JS("string", "cli/*.js")
    [] k = "esbuildTarget" -> JS("string", "es2017")
CliOverrides == {emptyConfig} \cup {With(emptyConfig, k, CliValue(k)) : k \in CliKeys}

Input(c, a, p) == [config |-> c, cli |-> a, plugins |-> p]

\* typed settings, two at a time, against one command-line override
SecondKeys == {"rootDir", "port", "watch", "files"}
ValidationInputs ==
  UNION {
    {Input(With(With(emptyConfig, k[1], v1), k[2], v2), a, <<>>) :
       v1 \in UserValues(k[1]), v2 \in UserValues(k[2]), a \in CliOverrides} :
    k \in CheckedKeys \X SecondKeys}

\* the groups specification, the focus selector and the root files
EntryShapes == {"a", "a+files", "b", "default", "pattern"}
Entry(shape, i) ==
  CASE shape = "a" -> Group("object", "a", undefined, i)
    [] shape = "a+files" -> Group("object", "a", JS("string", "a/*.js"), i)
    [] shape = "b" -> Group("object", "b", null, i)
    [] shape = "default" -> Group("object", "default", undefined, i)
    [] shape = "pattern" -> Group("string", "groups/*.js", undefined, 0)
GroupsValues ==
  {undefinedOf("groups"),
   JS("string", <<Group("string", "groups/*.js", undefined, 0)>>),
   JS("string", <<Group("string", "", undefined, 0)>>)}
  \cup {JS("array", [i \in DOMAIN shapes |-> Entry(shapes[i], i)]) :
          shapes \in SeqsUpTo(EntryShapes, MaxGroups)}
FocusValues == {undefined, JS("string", "a"), JS("string", "b"), JS("string", "default")}
UserBrowsers == {undefinedOf("browsers"), nullOf("browsers"), JS("array", <<>>),
                 JS("array", <<Launcher("custom", "X")>>),
                 JS("array", <<Launcher("custom", "X"), Launcher("custom", "Y")>>)}
GroupInputs ==
  {Input([emptyConfig EXCEPT !["groups"] = g, !["files"] = f, !["port"] = p,
                             !["browsers"] = b],
         [emptyConfig EXCEPT !["group"] = focus, !["files"] = cf, !["puppeteer"] = pup],
         <<>>) :
     g \in GroupsValues, f \in {undefined, JS("string", "test/*.js")},
     p \in {undefined, JS("number", "9000")},
     b \in {undefinedOf("browsers"), JS("array", <<Launcher("custom", "X")>>)},
     focus \in FocusValues, cf \in {undefined, JS("string", "cli/*.js")},
     pup \in {undefined, JS("boolean", "true")}}

\* the browsers and the launcher flags
Flags == {undefined, JS("boolean", "false"), JS("boolean", "true")}
CliBrowsers == {undefinedOf("browsers"), JS("array", <<>>), JS("array", <<"chrome">>),
                JS("array", <<"chrome", "firefox">>)}
LauncherInputs ==
  {Input([emptyConfig EXCEPT !["browsers"] = b, !["port"] = JS("number", "9000")],
         [emptyConfig EXCEPT !["puppeteer"] = pup, !["playwright"] = play,
                             !["browsers"] = cb],
         <<>>) :
     b \in UserBrowsers, pup \in Flags, play \in Flags, cb \in CliBrowsers}

\* the plugins and the options that add plugins
UserPlugins == {"P", "Q"}
PluginsValues ==
  {<<undefinedOf("plugins"), <<>> >>, <<nullOf("plugins"), <<>> >>}
  \cup {<<JS("array", UserRef), ps>> : ps \in SeqsUpTo(UserPlugins, MaxUserPlugins)}
PluginInputs ==
  {Input([emptyConfig EXCEPT !["plugins"] = pl[1], !["nodeResolve"] = nr,
                             !["esbuildTarget"] = et, !["port"] = p],
         [emptyConfig EXCEPT !["nodeResolve"] = cnr, !["esbuildTarget"] = cet],
         pl[2]) :
     pl \in PluginsValues,
     nr \in {undefined, JS("boolean", "false"), JS("boolean", "true"), JS("object", "{}")},
     et \in {undefined, JS("string", ""), JS("string", "es2020"), JS("array", "[]")},
     p \in {undefined, JS("number", "9000")},
     cnr \in {undefined, JS("boolean", "true")},
     cet \in {undefined, JS("string", "es2017")}}

Inputs == ValidationInputs \cup GroupInputs \cup LauncherInputs \cup PluginInputs

Init ==
  \E inp \in Inputs :
    /\ config = inp.config
    /\ cliArgs = inp.cli
    /\ heap = [r \in Refs |-> IF r = UserRef THEN inp.plugins ELSE <<>>]
    /\ pre = [config |-> inp.config,
              heap |-> [r \in Refs |-> IF r = UserRef THEN inp.plugins ELSE <<>>]]
    /\ pc = "idle"
    /\ stage = "none"
    /\ call = 0
    /\ finalConfig = emptyConfig
    /\ groupConfigs = <<>>
    /\ resolved = <<>>
    /\ configPatterns = <<>>
    /\ log = <<>>
    /\ err = NoErr
    /\ results = <<>>

Next == Call \/ PortResolved \/ PortRejected \/ GroupsCollected \/ CollectRejected

Spec == Init /\ [][Next]_vars

\* ------------------------------------------------------------ properties
Stages ==
  <<"none", "merge", "validate", "rootDir", "port", "groups", "reserved", "focus",
    "launch", "defaults", "plugins">>
StageNo(st) == CHOOSE i \in DOMAIN Stages : Stages[i] = st
Reached(st) == StageNo(stage) >= StageNo(st)
Finished == pc \in {"done", "failed"}
Passed(st) == Reached(st) /\ (pc = "failed" => stage # st) /\ ~(stage = st /\ pc \in {"awaitPort", "awaitCollect"})

\* the configuration parseConfig merged when it was called
merged == mergeConfigs(defaultConfig, pre.config, cliArgsConfig(cliArgs))
\* the user's configuration over the defaults, without the command line
userMerged == mergeConfigs(defaultConfig, pre.config, emptyConfig)
Invoked(what) == \E i \in DOMAIN log : log[i] = what
Count(seq, x) == Cardinality({i \in DOMAIN seq : seq[i] = x})

\* C1: the returned plugin list is esbuild (iff esbuildTarget is set), viewport,
\* media, user-agent, syntax-checker, the user's plugins in their order, then
\* node-resolve (iff nodeResolve is set), each built-in plugin exactly once.
C1_PluginOrder ==
  pc = "done" =>
    LET userPlugins == IF isArray(pre.config["plugins"]) THEN pre.heap[UserRef] ELSE <<>>
        first == IF truthy(merged["esbuildTarget"]) THEN <<"esbuild">> ELSE <<>>
        last == IF truthy(merged["nodeResolve"]) THEN <<"node-resolve">> ELSE <<>>
        plugins == heap[finalConfig["plugins"].v]
    IN /\ plugins = first \o <<"set-viewport", "emulate-media", "set-user-agent",
                               "syntax-checker">> \o userPlugins \o last
       /\ \A b \in {"set-viewport", "emulate-media", "set-user-agent", "syntax-checker"} :
            Count(plugins, b) = 1
       /\ Count(plugins, "esbuild") = Len(first)
       /\ Count(plugins, "node-resolve") = Len(last)

\* C8: two resolutions of the same input return equal plugin lists with no
\* plugin added twice, and the lists are not one array, nor the caller's, nor
\* the array of the module-level defaults.
C8_Independent ==
  \A i, j \in DOMAIN results :
    i < j =>
      /\ results[i].plugins = results[j].plugins
      /\ results[i].ref # results[j].ref
      /\ results[j].ref \notin {DefaultRef, UserRef}
      /\ heap[results[i].ref] = results[i].plugins
      /\ \A k \in AllKeys \ {"plugins", "port"} :
           results[i].config[k] = results[j].config[k]

\* C9: the returned group list has no two entries of the same name.
C9_UniqueNames ==
  pc = "done" =>
    \A i, j \in DOMAIN groupConfigs :
      i # j => groupConfigs[i].name # groupConfigs[j].name

\* what the user configured as browsers, and whether it has an entry
userBrowsers == userMerged["browsers"]
manualBrowsers == ~isNullish(userBrowsers) /\ Len(userBrowsers.v) > 0
FamilyOf(names, family, browsers) ==
  /\ browsers.t = "array"
  /\ \A i \in DOMAIN browsers.v : browsers.v[i].family = family
  /\ IF isNullish(names) THEN Len(browsers.v) = 1
     ELSE /\ Len(browsers.v) = Len(names.v)
          /\ \A i \in DOMAIN names.v : browsers.v[i].name = names.v[i]

\* C2: with the puppeteer flag (or else the playwright flag), a resolution that
\* comes to choose its launchers fails with ConflictingLauncherError iff the
\* user's config (over the defaults) has a browsers list with an entry;
\* otherwise it returns the launchers of that one family, made from the
\* command line's browsers, which never count as configured browsers.
C2_LauncherFamily ==
  (Finished /\ Reached("launch")
     /\ (truthy(cliArgs["puppeteer"]) \/ truthy(cliArgs["playwright"]))) =>
    LET family == IF truthy(cliArgs["puppeteer"]) THEN "puppeteer" ELSE "playwright"
    IN /\ err.kind = "ConflictingLauncherError" <=> manualBrowsers
       /\ manualBrowsers => pc = "failed" /\ stage = "launch" /\ err.key = family
       /\ ~manualBrowsers =>
            pc = "done" /\ FamilyOf(cliArgs["browsers"], family, finalConfig["browsers"])

C2_Witness ==
  /\ pc = "done"
  /\ truthy(cliArgs["playwright"]) /\ ~truthy(cliArgs["puppeteer"])
  /\ cliArgs["browsers"] = JS("array", <<"chrome", "firefox">>)
  /\ userBrowsers = JS("array", <<>>)
  /\ finalConfig["browsers"].v =
       <<Launcher("playwright", "chrome"), Launcher("playwright", "firefox")>>

\* C3: without a launcher flag, a resolution that comes to choose its launchers
\* fails with InvalidLauncherSelectionError if the command line gives browsers;
\* otherwise it returns one default launcher if no browsers are configured and
\* the user's browsers unchanged if they are.
C3_DefaultLauncher ==
  (Finished /\ Reached("launch")
     /\ ~truthy(cliArgs["puppeteer"]) /\ ~truthy(cliArgs["playwright"])) =>
    IF ~isNullish(cliArgs["browsers"])
      THEN pc = "failed" /\ stage = "launch"
           /\ err.kind = "InvalidLauncherSelectionError"
      ELSE /\ pc = "done"
           /\ IF isNullish(userBrowsers)
                THEN finalConfig["browsers"] = JS("array", <<Launcher("chrome", "chrome")>>)
                ELSE finalConfig["browsers"] = userBrowsers

C3_Witness ==
  /\ pc = "done"
  /\ ~truthy(cliArgs["puppeteer"]) /\ ~truthy(cliArgs["playwright"])
  /\ isNullish(cliArgs["browsers"])
  /\ userBrowsers = JS("array", <<>>)
  /\ finalConfig["browsers"] = JS("array", <<>>)

NamedFocus == ~isNullish(cliArgs["group"]) /\ cliArgs["group"].v # "default"
IsFirstMatch(i) ==
  /\ i \in DOMAIN resolved
  /\ resolved[i].name = cliArgs["group"].v
  /\ \A j \in 1..(i - 1) : resolved[j].name # cliArgs["group"].v

\* C4: with a focus selector other than "default", a resolution that comes to
\* focus returns exactly the first group of that name (inline groups come
\* before collected ones), with its own files if it has them and else the root
\* files as merged, and clears the root files; it fails with
\* GroupNotFoundError iff no resolved group has that name.
C4_Focus ==
  (Finished /\ Reached("focus") /\ NamedFocus) =>
    /\ \A i, j \in DOMAIN resolved : (i < j /\ resolved[i].ref = 0) => resolved[j].ref = 0
    /\ err.kind = "GroupNotFoundError" <=> ~\E i \in DOMAIN resolved : IsFirstMatch(i)
    /\ err.kind = "GroupNotFoundError" => pc = "failed" /\ stage = "focus"
    /\ pc = "done" =>
         \E i \in DOMAIN resolved :
           /\ IsFirstMatch(i)
           /\ groupConfigs =
                <<[resolved[i] EXCEPT
                     !.files = IF resolved[i].files.t \in {"undefined", "null"}
                                 THEN merged["files"] ELSE resolved[i].files]>>
           /\ finalConfig["files"] = undefined

C4_Witness ==
  /\ pc = "done" /\ NamedFocus
  /\ Len(resolved) = 2
  /\ resolved[1].name = "a" /\ resolved[2].name = "a"
  /\ resolved[1].files = undefined /\ resolved[2].files # undefined
  /\ merged["files"] = JS("string", "test/*.js")
  /\ groupConfigs[1].files = JS("string", "test/*.js")
  /\ call = 1

\* C5: the focus selector "default" makes a successful resolution return no
\* groups, whatever the groups specification, and the root files as merged.
C5_FocusDefault ==
  (pc = "done" /\ cliArgs["group"] = JS("string", "default")) =>
    /\ groupConfigs = <<>>
    /\ finalConfig["files"] = merged["files"]

C5_Witness ==
  /\ pc = "done" /\ cliArgs["group"] = JS("string", "default")
  /\ Len(resolved) = 2
  /\ groupConfigs = <<>>
  /\ finalConfig["files"] = JS("string", "test/*.js")

HasDefaultGroup == \E i \in DOMAIN resolved : resolved[i].name = "default"

\* C6: a resolution whose groups, inline or collected, include one named
\* "default" fails with ReservedGroupNameError whatever the focus selector is,
\* returns nothing, and no other failure has that error.
C6_ReservedName ==
  /\ (Passed("groups") /\ HasDefaultGroup) =>
       /\ pc = "failed" /\ stage = "reserved"
       /\ err.kind = "ReservedGroupNameError"
       /\ \A i \in DOMAIN results : results[i].call # call
  /\ err.kind = "ReservedGroupNameError" => Passed("groups") /\ HasDefaultGroup

C6_Witness ==
  /\ pc = "failed" /\ err.kind = "ReservedGroupNameError"
  /\ cliArgs["group"] = JS("string", "default")
  /\ Len(resolved) = 2 /\ resolved[1].ref = 1 /\ resolved[2].ref = 0
  /\ resolved[2].name = "default"

\* the keys validateConfig checks, in the order it checks them
ValidationOrder == stringSettings \o numberSettings \o booleanSettings \o <<"esbuildTarget", "files">>
OrderOf(k) == CHOOSE i \in DOMAIN ValidationOrder : ValidationOrder[i] = k
ExpectedKinds(k) ==
  CASE k \in Range(stringSettings) -> {"string"}
    [] k \in Range(numberSettings) -> {"number"}
    [] k \in Range(booleanSettings) -> {"boolean"}
    [] OTHER -> {"string", "array"}
WrongTyped(v, k) == v.t \notin ({"undefined", "null"} \cup ExpectedKinds(k))
Overridden(k) == cliArgs[k].t # "undefined"
FailsValidation(k) ==
  pc = "failed" /\ stage = "validate" /\ err.kind = "ConfigValidationError" /\ err.key = k

\* C7 as stated: a wrong-typed value of a checked key in the user config (the
\* first such key, if there are several) makes every resolution fail with a
\* ConfigValidationError naming that key, whatever the command-line arguments;
\* a well-typed, null or absent value never does.
C7_Original ==
  call >= 1 =>
    \A k \in CheckedKeys :
      /\ (/\ WrongTyped(pre.config[k], k)
          /\ \A k2 \in CheckedKeys :
               WrongTyped(pre.config[k2], k2) => OrderOf(k) <= OrderOf(k2))
           => FailsValidation(k)
      /\ FailsValidation(k) => WrongTyped(pre.config[k], k)

\* C7 amended: validation sees the merged value of a key.  A wrong-typed user
\* value that no command-line argument overrides makes the resolution fail
\* with a ConfigValidationError naming the first such key in validation order;
\* if every wrong-typed user value is overridden, validation passes; a
\* well-typed, null or absent user value is never the key named.
C7_Validation ==
  call >= 1 =>
    LET bad == {k \in CheckedKeys : WrongTyped(pre.config[k], k) /\ ~Overridden(k)}
    IN /\ \A k \in bad :
            (\A k2 \in bad : OrderOf(k) <= OrderOf(k2)) => FailsValidation(k)
       /\ bad = {} => err.kind # "ConfigValidationError" /\ Reached("rootDir")
       /\ \A k \in CheckedKeys : FailsValidation(k) => k \in bad
       /\ err.kind = "ConfigValidationError" =>
            err.cls = (IF err.key \in TypedKeys THEN "TestRunnerStartError" ELSE "Error")

C7_Witness ==
  /\ FailsValidation("files")
  /\ pre.config["files"] = JS("object", "{}")
  /\ pre.config["port"] = JS("string", "9000")
  /\ Overridden("port")

\* C10 as stated: a successful resolution called the port finder iff no port
\* was configured after merging (a configured port is returned unchanged, else
\* the finder's), and the group collector iff the groups specification has a
\* string pattern; the port lookup is done before the collection starts.
C10_Original ==
  pc = "done" =>
    /\ Invoked("port:start") <=> isNullish(merged["port"])
    /\ finalConfig["port"] =
         (IF isNullish(merged["port"]) THEN finalConfig["port"] ELSE merged["port"])
    /\ Invoked("port:start") => finalConfig["port"] \in FreePorts
    /\ Invoked("collect:start") <=>
         \E i \in DOMAIN merged["groups"].v :
           merged["groups"].v[i].kind = "string" /\ merged["groups"].v[i].name # ""
    /\ \A i, j \in DOMAIN log :
         (log[i] = "collect:start" /\ log[j] = "port:done") => j < i

\* C10 amended: a resolution that comes to the port step calls the port finder
\* iff the merged port is not a number, and returns the merged port or else the
\* finder's; one that comes to the groups step calls the group collector iff
\* the merged groups specification is a non-empty string or an array, also an
\* array without string patterns, with exactly its string patterns; the port
\* lookup is done before the collection starts.
C10_Collaborators ==
  /\ Invoked("port:start") <=> (Reached("port") /\ merged["port"].t # "number")
  /\ Invoked("collect:start") <=>
       (Passed("port") /\ \/ merged["groups"].t = "array"
                          \/ merged["groups"].t = "string" /\ merged["groups"].v[1].name # "")
  /\ Invoked("collect:start") =>
       /\ \A i \in DOMAIN configPatterns : configPatterns[i].kind = "string"
       /\ Len(configPatterns) =
            Cardinality({i \in DOMAIN merged["groups"].v : merged["groups"].v[i].kind = "string"})
  /\ \A i, j \in DOMAIN log :
       (log[i] = "collect:start" /\ log[j] \in {"port:start", "port:done"}) => j < i
  /\ Invoked("collect:start") => (Invoked("port:start") => Invoked("port:done"))
  /\ pc = "done" =>
       finalConfig["port"] \in
         (IF merged["port"].t = "number" THEN {merged["port"]} ELSE FreePorts)

C10_Witness ==
  /\ pc = "done"
  /\ log = <<"port:start", "port:done", "collect:start", "collect:done">>
  /\ configPatterns = <<>>
  /\ isNullish(merged["port"])
  /\ Len(groupConfigs) = 2

====
